---- MODULE Spec2Model ----
(***************************************************************************)
(* FinOpti-AI: the analysis pipeline (backend.py), the credential store    *)
(* (database.py, auth.py) and the Streamlit login / signup flow (app.py).  *)
(*                                                                         *)
(* Money is fixed point: every amount is an integer number of tenths of a  *)
(* currency unit, so that 0.8 * x, 0.7 * x and x - 257.5 are exact for the *)
(* whole-unit forecasts the model draws.  Text is a tuple of one-character *)
(* strings, so that strip, lower, regular expressions and the 72-byte      *)
(* limit of bcrypt are computed character by character.                    *)
(***************************************************************************)
EXTENDS Integers, Sequences, FiniteSets, TLC

VARIABLES
    table,      \* the spreadsheet read by run_analysis (data/final.xlsx)
    run,        \* the last run_analysis call: its arguments and its outcome
    pred_df,    \* a forecast table handed to optimize_expenditures
    report,     \* what optimisation and reporting made of pred_df
    users,      \* the users table of users.db
    session,    \* st.session_state of one browser session
    ui_message, \* what the last handler showed (st.error, st.warning, st.success)
    last,       \* the last handler that ran, with its inputs
    first_signup,   \* per username, the password and hash of its first signup
    bcrypt_strict,  \* whether the installed bcrypt raises on long passwords
    produced,   \* what run_analysis returned or raised since the last login
    runs,       \* run_analysis calls in flight, one per browser session
    files       \* the files of the output directory, by path

pipeline_vars == <<table, run, pred_df, report>>
auth_vars == <<users, session, ui_message, last, first_signup, bcrypt_strict, produced>>
files_vars == <<runs, files>>
vars == <<pipeline_vars, auth_vars, files_vars>>

(***************************************************************************)
(* Bounds of the model.                                                    *)
(***************************************************************************)
MaxRows == 3            \* rows of the spreadsheet
MaxForecastYears == 2   \* forecast horizon (the UI allows 1..10)

(***************************************************************************)
(* Generic helpers.                                                        *)
(***************************************************************************)
Max2(a, b) == IF a >= b THEN a ELSE b

RECURSIVE SetMax(_)
SetMax(S) ==
    LET x == CHOOSE y \in S : TRUE
    IN  IF S = {x} THEN x ELSE Max2(x, SetMax(S \ {x}))

RECURSIVE SumSeq(_)
SumSeq(s) == IF s = <<>> THEN 0 ELSE Head(s) + SumSeq(Tail(s))

RECURSIVE Concat(_)
Concat(ss) == IF ss = <<>> THEN <<>> ELSE Head(ss) \o Concat(Tail(ss))

Column(df, c) == [i \in 1..Len(df) |-> df[i][c]]

(***************************************************************************)
(* Text: str.strip() and str.lower() on tuples of characters.              *)
(***************************************************************************)
UpperToLower ==
    [c \in {"H", "D", "F", "C", "S", "B", "I", "A", "Z"} |->
        CASE c = "H" -> "h" [] c = "D" -> "d" [] c = "F" -> "f"
          [] c = "C" -> "c" [] c = "S" -> "s" [] c = "B" -> "b"
          [] c = "I" -> "i" [] c = "A" -> "a" [] c = "Z" -> "z"]

lower(s) ==
    [i \in 1..Len(s) |->
        IF s[i] \in DOMAIN UpperToLower THEN UpperToLower[s[i]] ELSE s[i]]

RECURSIVE lstrip(_)
lstrip(s) ==
    IF s # <<>> /\ Head(s) = " " THEN lstrip(Tail(s)) ELSE s

RECURSIVE rstrip(_)
rstrip(s) ==
    IF s # <<>> /\ s[Len(s)] = " " THEN rstrip(SubSeq(s, 1, Len(s) - 1)) ELSE s

strip(s) == rstrip(lstrip(s))

(***************************************************************************)
(* Spreadsheet cells.  A cell holds a number, nothing (NaN) or text that   *)
(* is not a number.                                                        *)
(***************************************************************************)
Num(v) == [k |-> "num", v |-> v]
NaN == [k |-> "nan", v |-> 0]
Txt == [k |-> "str", v |-> 0]

\* pd.to_numeric(cell, errors="coerce")
to_numeric(cell) == IF cell.k = "num" THEN cell ELSE NaN

\* Series.ffill(): an empty cell takes the last cell above it that is not empty
RECURSIVE ffill(_)
ffill(col) ==
    IF Len(col) <= 1 THEN col
    ELSE LET init == ffill(SubSeq(col, 1, Len(col) - 1))
             cell == col[Len(col)]
         IN  Append(init, IF cell.k = "nan" THEN init[Len(init)] ELSE cell)

\* Series.fillna(0)
fillna0(cell) == IF cell.k = "nan" THEN Num(0) ELSE cell

\* sorted(S) for a set of integers
RECURSIVE SortedSeq(_)
SortedSeq(S) ==
    IF S = {} THEN <<>>
    ELSE LET m == SetMax(S) IN Append(SortedSeq(S \ {m}), m)

(***************************************************************************)
(* run_analysis, data loading and cleaning (backend.py 106-123).           *)
(***************************************************************************)
\* df['Year'] = pd.to_numeric(df['Year'].ffill(), errors='coerce');
\* df.dropna(subset=['Year']); df['Year'].astype(int)
clean_years(df) ==
    LET filled == ffill(Column(df, "Year"))
        coerced == [i \in 1..Len(df) |->
                       [df[i] EXCEPT !.Year = to_numeric(filled[i])]]
        kept == SelectSeq(coerced, LAMBDA r : r.Year.k = "num")
    IN  [i \in 1..Len(kept) |-> [kept[i] EXCEPT !.Year = kept[i].Year.v]]

\* df[df['Banks'].astype(str).str.strip().str.lower() == bank_name.strip().lower()]
select_bank(df, bank_name) ==
    SelectSeq(df, LAMBDA r : lower(strip(r.Banks)) = lower(strip(bank_name)))

\* mutant of select_historical: the current year counts as history
select_historical_through_current(bank_df, current_year) ==
    LET hist == SelectSeq(bank_df, LAMBDA r : r.Year <= current_year)
    IN  [i \in 1..Len(hist) |->
            [hist[i] EXCEPT !.CapEx = fillna0(to_numeric(hist[i].CapEx)),
                            !.OpEx = fillna0(to_numeric(hist[i].OpEx))]]

\* bank_df[bank_df['Year'] <= max_year_for_forecast], expenditure columns
\* coerced to numbers with NaN filled by 0
select_historical(bank_df, current_year) ==
    LET max_year_for_forecast == current_year - 1
        hist == SelectSeq(bank_df, LAMBDA r : r.Year <= max_year_for_forecast)
    IN  [i \in 1..Len(hist) |->
            [hist[i] EXCEPT !.CapEx = fillna0(to_numeric(hist[i].CapEx)),
                            !.OpEx = fillna0(to_numeric(hist[i].OpEx))]]

\* historical_df.groupby('Year', as_index=False).agg(sum): one row per year,
\* in increasing year order
group_by_year(historical_df) ==
    LET years == SortedSeq({historical_df[i].Year : i \in 1..Len(historical_df)})
        of(y) == SelectSeq(historical_df, LAMBDA r : r.Year = y)
    IN  [j \in 1..Len(years) |->
            [Year |-> years[j],
             CapEx |-> Num(SumSeq([i \in 1..Len(of(years[j])) |-> of(years[j])[i].CapEx.v])),
             OpEx |-> Num(SumSeq([i \in 1..Len(of(years[j])) |-> of(years[j])[i].OpEx.v]))]]

MinHistoricalYears == 3

\* mutant of forecast_years_list: the range starts at the last historical year
forecast_years_list_from_last(grouped, forecast_years) ==
    LET last_historical_year == SetMax({grouped[i].Year : i \in 1..Len(grouped)})
    IN  [i \in 1..forecast_years |-> last_historical_year + (i - 1)]

\* list(range(start_year, start_year + forecast_years))
forecast_years_list(grouped, forecast_years) ==
    LET last_historical_year == SetMax({grouped[i].Year : i \in 1..Len(grouped)})
        start_year == last_historical_year + 1
    IN  [i \in 1..forecast_years |-> start_year + (i - 1)]

(***************************************************************************)
(* forecast_expenditure (backend.py 24-33).  auto_arima is a library: the  *)
(* point predictions of the fitted model are an input, predicted.          *)
(***************************************************************************)
forecast_expenditure(series, periods, predicted) ==
    LET points == SelectSeq([i \in 1..Len(series) |-> to_numeric(series[i])],
                             LAMBDA c : c.k # "nan")
    IN  IF Len(points) < MinHistoricalYears
        THEN [raised |-> TRUE, fc |-> <<>>]
        ELSE [raised |-> FALSE, fc |-> SubSeq(predicted, 1, periods)]

(***************************************************************************)
(* optimize_expenditures (backend.py 36-54).  Per forecast row, SLSQP      *)
(* minimises                                                               *)
(*   (alpha*capex + beta*opex)*(1+inflation)                               *)
(*       + gamma*((capex-pred_capex)^2 + (opex-pred_opex)^2)               *)
(* subject to capex >= 0.8*pred_capex, opex >= 0.7*pred_opex and the       *)
(* bounds capex >= 0, opex >= 0.  The objective is separable and convex,   *)
(* so its constrained minimum is, per coordinate, the unconstrained        *)
(* minimum pred - weight*(1+inflation)/(2*gamma) raised to the larger of   *)
(* the floor and the bound.                                                *)
(***************************************************************************)
AlphaMilli == 500        \* alpha = 0.5
BetaMilli == 500         \* beta = 0.5
GammaMilli == 1          \* gamma = 0.001
InflationMilli == 30     \* inflation_rate = 0.03
CapexFloorTenths == 8    \* capex >= 0.8 * pred_capex
OpexFloorTenths == 7     \* opex >= 0.7 * pred_opex
LowerBound == 0          \* bounds=[(0, None), (0, None)]

\* floor_tenths/10 * pred: the constraint floor of a forecast value
constraint_floor(floor_tenths, pred) == (floor_tenths * pred) \div 10

\* weight*(1+inflation)/(2*gamma), in tenths of a unit
unconstrained_shift(weight_milli) ==
    (weight_milli * (1000 + InflationMilli)) \div (200 * GammaMilli)

\* mutant of constrained_minimum: the linear term pulls the value up
constrained_minimum_shifted_up(pred, weight_milli, floor_tenths) ==
    Max2(pred + unconstrained_shift(weight_milli),
         Max2(constraint_floor(floor_tenths, pred), LowerBound))

\* the minimiser of one coordinate over its feasible half-line
constrained_minimum(pred, weight_milli, floor_tenths) ==
    Max2(pred - unconstrained_shift(weight_milli),
         Max2(constraint_floor(floor_tenths, pred), LowerBound))

\* What scipy.optimize.minimize can hand back for one row: a converged
\* finite point, a reported failure, or a point that is not finite.
SolverOutcomes == {"converged", "failed", "nonfinite"}

minimize_slsqp(pred_capex, pred_opex, outcome) ==
    [success |-> outcome # "failed",
     finite |-> outcome # "nonfinite",
     x |-> <<constrained_minimum(pred_capex, AlphaMilli, CapexFloorTenths),
             constrained_minimum(pred_opex, BetaMilli, OpexFloorTenths)>>]

\* mutant of optimize_row: the fallback swaps the two multipliers
optimize_row_swapped_fallback(pred_capex, pred_opex, outcome) ==
    LET result == minimize_slsqp(pred_capex, pred_opex, outcome)
    IN  IF result.success /\ result.finite
        THEN result.x
        ELSE <<constraint_floor(OpexFloorTenths, pred_capex),
               constraint_floor(CapexFloorTenths, pred_opex)>>

\* mutant of optimize_row: the fallback keeps the forecast itself
optimize_row_fallback_keeps_forecast(pred_capex, pred_opex, outcome) ==
    LET result == minimize_slsqp(pred_capex, pred_opex, outcome)
    IN  IF result.success /\ result.finite
        THEN result.x
        ELSE <<pred_capex, pred_opex>>

\* the body of the loop over df.iterrows(): the optimised pair of one row
optimize_row(pred_capex, pred_opex, outcome) ==
    LET result == minimize_slsqp(pred_capex, pred_opex, outcome)
    IN  IF result.success /\ result.finite
        THEN result.x
        ELSE <<constraint_floor(CapexFloorTenths, pred_capex),
               constraint_floor(OpexFloorTenths, pred_opex)>>

\* out = df.copy() with the two optimised columns added
optimize_expenditures(df, outcomes) ==
    [i \in 1..Len(df) |->
        LET opt == optimize_row(df[i].Forecast_CapEx, df[i].Forecast_OpEx, outcomes[i])
        IN  [Year |-> df[i].Year,
             Forecast_CapEx |-> df[i].Forecast_CapEx,
             Forecast_OpEx |-> df[i].Forecast_OpEx,
             Optimized_CapEx |-> opt[1],
             Optimized_OpEx |-> opt[2]]]

\* pred_df.merge(optimized_df[['Year','Optimized_CapEx','Optimized_OpEx']],
\*               on='Year', how='left'): each left row once per right row of
\* the same Year (the right table is made from the left one, so every left
\* row has a match)
merge_on_year(left, right) ==
    Concat([i \in 1..Len(left) |->
        LET m == SelectSeq(right, LAMBDA r : r.Year = left[i].Year)
        IN  [j \in 1..Len(m) |->
                [Year |-> left[i].Year,
                 Forecast_CapEx |-> left[i].Forecast_CapEx,
                 Forecast_OpEx |-> left[i].Forecast_OpEx,
                 Optimized_CapEx |-> m[j].Optimized_CapEx,
                 Optimized_OpEx |-> m[j].Optimized_OpEx]]])

(***************************************************************************)
(* Quotients.  a / b is the exact fraction; a division by zero is kept as  *)
(* a flag (inf or nan for numpy floats, ZeroDivisionError for Python's).   *)
(***************************************************************************)
Frac(n, d) == [num |-> n, den |-> d, undefined |-> FALSE]
DivisionByZero == [num |-> 0, den |-> 0, undefined |-> TRUE]
Zero == Frac(0, 1)

divide(a, b) == IF b = 0 THEN DivisionByZero ELSE Frac(a, b)

\* mutant of pct_if: the guard is missing
pct_unguarded(a, b) == divide(100 * a, b)

\* (a / b) * 100 if b else 0
pct_if(a, b) == IF b # 0 THEN divide(100 * a, b) ELSE Zero

\* f"{x:.2f}" of a fraction: the nearest number of hundredths, ties to even
RoundHundredths(q) ==
    LET n == IF q.den < 0 THEN -(100 * q.num) ELSE 100 * q.num
        d == IF q.den < 0 THEN -q.den ELSE q.den
        lo == n \div d
        r == n - lo * d
    IN  IF 2 * r < d THEN lo
        ELSE IF 2 * r > d THEN lo + 1
        ELSE IF lo % 2 = 0 THEN lo ELSE lo + 1

format_2f(q) == IF q.undefined THEN "nan" ELSE ToString(RoundHundredths(q))

\* f"{x:,.2f}" of an amount held in tenths
format_amount(tenths) == format_2f(Frac(tenths, 10))

(***************************************************************************)
(* generate_recommendations (backend.py 57-72): the numbers it computes    *)
(* and the three it writes into the text.                                  *)
(***************************************************************************)
generate_recommendations(pred, opt) ==
    LET forecast_capex == SumSeq(Column(pred, "Forecast_CapEx"))
        forecast_opex == SumSeq(Column(pred, "Forecast_OpEx"))
        optimized_capex == SumSeq(Column(opt, "Optimized_CapEx"))
        optimized_opex == SumSeq(Column(opt, "Optimized_OpEx"))
        total_forecast == forecast_capex + forecast_opex
        total_optimized == optimized_capex + optimized_opex
        total_savings == total_forecast - total_optimized
        savings_pct == pct_if(total_savings, total_forecast)
        capex_reduction_pct == pct_if(forecast_capex - optimized_capex, forecast_capex)
        opex_reduction_pct == pct_if(forecast_opex - optimized_opex, forecast_opex)
    IN  [total_forecast |-> total_forecast,
         total_optimized |-> total_optimized,
         total_savings |-> total_savings,
         savings_pct |-> savings_pct,
         capex_reduction_pct |-> capex_reduction_pct,
         opex_reduction_pct |-> opex_reduction_pct,
         text |-> <<format_amount(total_savings), format_2f(savings_pct),
                    format_2f(capex_reduction_pct), format_2f(opex_reduction_pct)>>]

(***************************************************************************)
(* run_analysis, the metrics of the returned bundle (backend.py 135-143).  *)
(***************************************************************************)
\* mutant of kpi_metrics: the optimised total leaves out OpEx
kpi_metrics_capex_only(full_df) ==
    LET total_forecast_capex == SumSeq(Column(full_df, "Forecast_CapEx"))
        total_forecast_opex == SumSeq(Column(full_df, "Forecast_OpEx"))
        total_optimized_capex == SumSeq(Column(full_df, "Optimized_CapEx"))
        total_savings == (total_forecast_capex + total_forecast_opex)
                            - total_optimized_capex
        total_forecast == total_forecast_capex + total_forecast_opex
    IN  [total_savings |-> total_savings,
         savings_pct |-> pct_if(total_savings, total_forecast),
         total_forecast |-> total_forecast,
         total_optimized |-> total_optimized_capex]

kpi_metrics(full_df) ==
    LET total_forecast_capex == SumSeq(Column(full_df, "Forecast_CapEx"))
        total_forecast_opex == SumSeq(Column(full_df, "Forecast_OpEx"))
        total_optimized_capex == SumSeq(Column(full_df, "Optimized_CapEx"))
        total_optimized_opex == SumSeq(Column(full_df, "Optimized_OpEx"))
        total_savings == (total_forecast_capex + total_forecast_opex)
                            - (total_optimized_capex + total_optimized_opex)
        total_forecast == total_forecast_capex + total_forecast_opex
        total_optimized == total_optimized_capex + total_optimized_opex
    IN  [total_savings |-> total_savings,
         savings_pct |-> pct_if(total_savings, total_forecast),
         total_forecast |-> total_forecast,
         total_optimized |-> total_optimized]

(***************************************************************************)
(* run_analysis (backend.py 105-177).                                      *)
(***************************************************************************)
\* mutant of output_path: the institution name is left out of the file name
output_path_without_bank(output_dir, bank_name, suffix) == <<output_dir, suffix>>

\* os.path.join(output_dir, f"{bank_name}{suffix}")
output_path(output_dir, bank_name, suffix) == <<output_dir, bank_name, suffix>>

\* raise ValueError(...): the message's template, and the institution and
\* the number of years it names (either may be absent)
ValueError(template, banks, found, calls) ==
    [kind |-> "error", exc |-> "ValueError", template |-> template,
     names_bank |-> banks, names_found |-> found, calls |-> calls]

\* optimisation, merge, metrics and recommendations of a forecast table
\* (backend.py 132-147)
analyse(pred, outcomes) ==
    LET optimized_df == optimize_expenditures(pred, outcomes)
        full_df == merge_on_year(pred, optimized_df)
    IN  [combined_df |-> full_df,
         kpi_metrics |-> kpi_metrics(full_df),
         recommendations |-> generate_recommendations(pred, full_df)]

\* predicted: what the two fitted ARIMA models predict, one <<capex, opex>>
\* pair per forecast year; outcomes: what the solver reports for each row
run_analysis(tbl, bank_name, forecast_years, current_year, output_dir, predicted, outcomes) ==
    IF "Banks" \notin tbl.columns
    THEN ValueError("Excel file must contain a 'Banks' column.", {}, {},
                    <<"read_excel">>)
    ELSE
    LET df == clean_years(tbl.rows)
        bank_df == select_bank(df, bank_name)
        grouped == group_by_year(select_historical(bank_df, current_year))
    IN
    IF bank_df = <<>>
    THEN ValueError("No data for bank", {bank_name}, {}, <<"read_excel">>)
    ELSE IF Len(grouped) < MinHistoricalYears
    THEN ValueError("Not enough historical data", {bank_name}, {Len(grouped)},
                    <<"read_excel">>)
    ELSE
    LET years == forecast_years_list(grouped, forecast_years)
        capex_forecast == forecast_expenditure(Column(grouped, "CapEx"), forecast_years,
                              [i \in 1..Len(predicted) |-> predicted[i][1]])
        opex_forecast == forecast_expenditure(Column(grouped, "OpEx"), forecast_years,
                              [i \in 1..Len(predicted) |-> predicted[i][2]])
    IN
    IF capex_forecast.raised \/ opex_forecast.raised
    THEN ValueError("Not enough historical points to forecast", {}, {},
                    <<"read_excel", "forecast_expenditure">>)
    ELSE
    LET pred == [i \in 1..Len(years) |->
                    [Year |-> years[i],
                     Forecast_CapEx |-> capex_forecast.fc[i],
                     Forecast_OpEx |-> opex_forecast.fc[i]]]
        out == analyse(pred, outcomes)
    IN  [kind |-> "ok",
         combined_df |-> out.combined_df,
         kpi_metrics |-> out.kpi_metrics,
         recommendations |-> out.recommendations,
         excel_path |-> output_path(output_dir, bank_name, "_forecast_optimized.xlsx"),
         chart_path |-> output_path(output_dir, bank_name, "_chart.png"),
         pdf_path |-> output_path(output_dir, bank_name, "_report.pdf"),
         calls |-> <<"read_excel", "forecast_expenditure", "forecast_expenditure",
                     "optimize_expenditures", "generate_recommendations",
                     "to_excel", "plot_and_save_chart", "create_pdf_report">>]

(***************************************************************************)
(* The state before anything ran.                                          *)
(***************************************************************************)
None == {}
Some(x) == {x}

\* main(): the keys of st.session_state and their first values
InitialSession ==
    [authenticated |-> FALSE, username |-> None, results |-> None, error |-> None,
     run_clicked |-> FALSE, selected_bank |-> None, active_tab |-> "chart"]

NoHandler ==
    [op |-> "none", username |-> <<>>, password |-> <<>>, known_before |-> FALSE,
     add_user_called |-> FALSE, check_user_called |-> FALSE, user_id |-> None]

EmptyTable == [columns |-> {}, rows |-> <<>>]
NoRun == [kind |-> "none"]
NoReport == [kind |-> "none"]

AuthIdle ==
    /\ users = <<>>
    /\ session = InitialSession
    /\ ui_message = ""
    /\ last = NoHandler
    /\ first_signup = <<>>
    /\ bcrypt_strict = FALSE
    /\ produced = {}

NumRuns == 2        \* browser sessions that run an analysis at the same time

RunIds == 1..NumRuns

IdleRun == [pc |-> "idle", bank_name |-> <<>>, forecast_years |-> 0, bundle |-> None]

FilesIdle ==
    /\ runs = [r \in RunIds |-> IdleRun]
    /\ files = <<>>

PipelineIdle ==
    /\ table = EmptyTable
    /\ run = NoRun
    /\ pred_df = <<>>
    /\ report = NoReport

(***************************************************************************)
(* The inputs the model draws.                                             *)
(***************************************************************************)
OUTPUT_DIR == "outputs"

BankCells == {<<"H", "D", "F", "C", " ">>, <<"S", "B", "I">>}
BankNames == {<<"h", "d", "f", "c">>, <<"S", "B", "I">>}
FirstYear == 2021
YearCells == {Num(FirstYear), Num(FirstYear + 1), Num(FirstYear + 2), NaN, Txt}
CurrentYears == {FirstYear + 2, FirstYear + 3, FirstYear + 4}

\* rows with numeric amounts, and one row whose amounts are text and empty
SheetRows ==
    [Banks : BankCells, Year : YearCells, CapEx : {Num(10)}, OpEx : {Num(20)}]
    \cup {[Banks |-> <<"H", "D", "F", "C", " ">>, Year |-> Num(FirstYear + 2),
            CapEx |-> Txt, OpEx |-> NaN]}

SeqsUpTo(S, n) == UNION {[1..k -> S] : k \in 0..n}

Tables ==
    {[columns |-> {"Banks", "Year", "Capital Expenditure", "Operating Expenditure"},
      rows |-> rows] : rows \in SeqsUpTo(SheetRows, MaxRows)}
    \cup {[columns |-> {"Year", "Capital Expenditure", "Operating Expenditure"},
           rows |-> <<>>]}

\* whole-unit amounts, in tenths: -100, 0, 100 and 2000
ForecastValues == {-1000, 0, 1000, 20000}
PipelinePredictions == {<<1000, 1000>>, <<20000, -1000>>}

\* whether run_analysis gets as far as calling the forecaster
reaches_forecast(tbl, bank_name, current_year) ==
    run_analysis(tbl, bank_name, 1, current_year, OUTPUT_DIR, <<<<0, 0>>>>,
                 <<"converged">>).kind = "ok"

(***************************************************************************)
(* SpecPipeline: one run_analysis call on a spreadsheet.                   *)
(***************************************************************************)
InitPipeline ==
    /\ table \in Tables
    /\ run = NoRun
    /\ pred_df = <<>>
    /\ report = NoReport
    /\ AuthIdle
    /\ FilesIdle

GenerateForecast ==
    /\ run = NoRun
    /\ \E bank_name \in BankNames, current_year \in CurrentYears,
          forecast_years \in 1..MaxForecastYears :
        LET n == IF reaches_forecast(table, bank_name, current_year)
                 THEN forecast_years ELSE 0
        IN  \E predicted \in [1..n -> PipelinePredictions],
               outcomes \in [1..n -> SolverOutcomes] :
                run' = [kind |-> "ran",
                        bank_name |-> bank_name,
                        current_year |-> current_year,
                        forecast_years |-> forecast_years,
                        result |-> run_analysis(table, bank_name, forecast_years,
                                                current_year, OUTPUT_DIR,
                                                predicted, outcomes)]
    /\ UNCHANGED <<table, pred_df, report, auth_vars, files_vars>>

NextPipeline == GenerateForecast

SpecPipeline == InitPipeline /\ [][NextPipeline]_vars

(***************************************************************************)
(* What the spreadsheet says about an institution, read off the raw rows:  *)
(* the year a row counts for is the nearest non-empty Year cell at or      *)
(* above it, when that cell is a number.                                   *)
(***************************************************************************)
HasYear(rows, i) ==
    \E j \in 1..i :
        /\ rows[j].Year.k = "num"
        /\ \A m \in (j + 1)..i : rows[m].Year.k = "nan"

YearOf(rows, i) ==
    rows[CHOOSE j \in 1..i :
            /\ rows[j].Year.k = "num"
            /\ \A m \in (j + 1)..i : rows[m].Year.k = "nan"].Year.v

SameBank(cell, bank_name) == lower(strip(cell)) = lower(strip(bank_name))

\* the institution's rows that count for some year
BankRows(tbl, bank_name) ==
    {i \in 1..Len(tbl.rows) :
        HasYear(tbl.rows, i) /\ SameBank(tbl.rows[i].Banks, bank_name)}

\* the institution's distinct years at or before current_year - 1
HistoricalYears(tbl, bank_name, current_year) ==
    {YearOf(tbl.rows, i) : i \in
        {j \in BankRows(tbl, bank_name) : YearOf(tbl.rows, j) <= current_year - 1}}

RunYears == HistoricalYears(table, run.bank_name, run.current_year)

\* C1: with at least 3 distinct historical years of the institution at or
\* before current_year - 1, run_analysis returns a combined table of exactly
\* forecast_years rows whose Year values are last_historical_year + 1, ...,
\* last_historical_year + forecast_years.
C1_ForecastYearsConsecutive ==
    (run.kind = "ran" /\ Cardinality(RunYears) >= 3) =>
        /\ run.result.kind = "ok"
        /\ Len(run.result.combined_df) = run.forecast_years
        /\ \A i \in 1..Len(run.result.combined_df) :
              run.result.combined_df[i].Year = SetMax(RunYears) + i

\* a run of two forecast years whose last historical year is before
\* current_year - 1
C1_Witness ==
    /\ run.kind = "ran"
    /\ Cardinality(RunYears) >= 3
    /\ run.forecast_years = 2
    /\ SetMax(RunYears) < run.current_year - 1
    /\ run.result.kind = "ok"
    /\ Len(run.result.combined_df) = 2

\* C6 as stated: with fewer than 3 distinct historical years run_analysis
\* fails with a ValueError that names the institution and the number of
\* years found, before any forecast, optimisation or file write.
C6_ErrorNamesBankAndCount ==
    (run.kind = "ran" /\ "Banks" \in table.columns /\ Cardinality(RunYears) < 3) =>
        /\ run.result.kind = "error"
        /\ run.result.exc = "ValueError"
        /\ run.result.names_bank = {run.bank_name}
        /\ run.result.names_found = {Cardinality(RunYears)}
        /\ run.result.calls = <<"read_excel">>

\* C6 amended: with fewer than 3 distinct historical years run_analysis
\* fails with a ValueError before any forecast, optimisation or file write;
\* the error names the institution and the number of years found when some
\* row of the institution has a valid year, names only the institution
\* ("No data for bank") when no such row exists, and names neither when the
\* sheet has no Banks column.
C6_DescriptiveErrorBeforeForecast ==
    (run.kind = "ran" /\ Cardinality(RunYears) < 3) =>
        /\ run.result.kind = "error"
        /\ run.result.exc = "ValueError"
        /\ run.result.calls = <<"read_excel">>
        /\ ("Banks" \in table.columns /\ BankRows(table, run.bank_name) # {}) =>
              /\ run.result.names_bank = {run.bank_name}
              /\ run.result.names_found = {Cardinality(RunYears)}
        /\ ("Banks" \in table.columns /\ BankRows(table, run.bank_name) = {}) =>
              /\ run.result.template = "No data for bank"
              /\ run.result.names_bank = {run.bank_name}
              /\ run.result.names_found = {}
        /\ "Banks" \notin table.columns =>
              /\ run.result.names_bank = {}
              /\ run.result.names_found = {}

\* a run that fails on two historical years, one of them forward-filled
C6_Witness ==
    /\ run.kind = "ran"
    /\ Cardinality(RunYears) = 2
    /\ \E i \in BankRows(table, run.bank_name) : table.rows[i].Year.k = "nan"
    /\ run.result.kind = "error"
    /\ run.result.names_found = {2}

(***************************************************************************)
(* SpecOptimize: optimisation, metrics and recommendations of one forecast *)
(* table (backend.py 132-147), over every forecast the model draws.        *)
(***************************************************************************)
PredTables ==
    UNION {
        {[i \in 1..n |-> [Year |-> FirstYear + 2 + i,
                          Forecast_CapEx |-> v[i][1],
                          Forecast_OpEx |-> v[i][2]]] :
            v \in [1..n -> ForecastValues \X ForecastValues]} :
        n \in 1..MaxForecastYears}

InitOptimize ==
    /\ table = EmptyTable
    /\ run = NoRun
    /\ pred_df \in PredTables
    /\ report = NoReport
    /\ AuthIdle
    /\ FilesIdle

OptimizeAndReport ==
    /\ report = NoReport
    /\ \E outcomes \in [1..Len(pred_df) -> SolverOutcomes] :
        report' = [kind |-> "done", outcomes |-> outcomes,
                   out |-> analyse(pred_df, outcomes)]
    /\ UNCHANGED <<table, run, pred_df, auth_vars, files_vars>>

NextOptimize == OptimizeAndReport

SpecOptimize == InitOptimize /\ [][NextOptimize]_vars

ReportRows == 1..Len(report.out.combined_df)

\* C2: every optimised row has Optimized_CapEx >= 0.8 * Forecast_CapEx and
\* Optimized_OpEx >= 0.7 * Forecast_OpEx, on the solver's result and on the
\* fallback alike.
C2_OptimizedAtLeastFloor ==
    report.kind = "done" =>
        \A i \in ReportRows :
            LET r == report.out.combined_df[i]
            IN  /\ 10 * r.Optimized_CapEx >= 8 * r.Forecast_CapEx
                /\ 10 * r.Optimized_OpEx >= 7 * r.Forecast_OpEx

\* a table with a fallback row and a converged row strictly above its floor
C2_Witness ==
    /\ report.kind = "done"
    /\ \E i, j \in ReportRows :
        /\ report.outcomes[i] # "converged"
        /\ report.out.combined_df[i].Forecast_CapEx > 0
        /\ report.outcomes[j] = "converged"
        /\ 10 * report.out.combined_df[j].Optimized_CapEx
              > 8 * report.out.combined_df[j].Forecast_CapEx

\* C7: every optimised value is >= 0, for negative forecasts and for
\* fallback rows too.
C7_OptimizedNonNegative ==
    report.kind = "done" =>
        \A i \in ReportRows :
            /\ report.out.combined_df[i].Optimized_CapEx >= 0
            /\ report.out.combined_df[i].Optimized_OpEx >= 0

\* C3: no percentage of the metrics or of the recommendations divides by
\* zero, and savings_pct is 0 in both when total_forecast is 0.
C3_SavingsPctGuarded ==
    report.kind = "done" =>
        LET kpi == report.out.kpi_metrics
            rec == report.out.recommendations
        IN  /\ ~kpi.savings_pct.undefined
            /\ ~rec.savings_pct.undefined
            /\ ~rec.capex_reduction_pct.undefined
            /\ ~rec.opex_reduction_pct.undefined
            /\ kpi.total_forecast = 0 =>
                  (kpi.savings_pct = Zero /\ rec.savings_pct = Zero)

\* total_forecast is 0 although the CapEx forecasts are not, and the
\* optimised total is not 0
C3_Witness ==
    /\ report.kind = "done"
    /\ report.out.kpi_metrics.total_forecast = 0
    /\ report.out.kpi_metrics.total_savings # 0
    /\ SumSeq(Column(pred_df, "Forecast_CapEx")) # 0
    /\ report.out.kpi_metrics.savings_pct = Zero

RECURSIVE RowTotal(_, _, _)
RowTotal(df, a, b) ==
    IF df = <<>> THEN 0 ELSE Head(df)[a] + Head(df)[b] + RowTotal(Tail(df), a, b)

\* C10: total_forecast and total_optimized are the sums over the forecast
\* rows, total_savings is their difference, savings_pct is
\* 100 * total_savings / total_forecast when total_forecast is not 0, and
\* the recommendations compute and print the same values.
C10_KpiArithmetic ==
    report.kind = "done" =>
        LET kpi == report.out.kpi_metrics
            rec == report.out.recommendations
            df == report.out.combined_df
        IN  /\ Len(df) = Len(pred_df)
            /\ kpi.total_forecast = RowTotal(pred_df, "Forecast_CapEx", "Forecast_OpEx")
            /\ kpi.total_optimized = RowTotal(df, "Optimized_CapEx", "Optimized_OpEx")
            /\ kpi.total_savings = kpi.total_forecast - kpi.total_optimized
            /\ kpi.total_forecast # 0 =>
                  kpi.savings_pct = Frac(100 * kpi.total_savings, kpi.total_forecast)
            /\ rec.total_forecast = kpi.total_forecast
            /\ rec.total_optimized = kpi.total_optimized
            /\ rec.total_savings = kpi.total_savings
            /\ rec.savings_pct = kpi.savings_pct
            /\ rec.text[1] = format_amount(kpi.total_savings)
            /\ rec.text[2] = format_2f(kpi.savings_pct)

\* two forecast rows with positive savings whose percentage is rounded
C10_Witness ==
    /\ report.kind = "done"
    /\ Len(pred_df) = 2
    /\ report.out.kpi_metrics.total_forecast > 0
    /\ report.out.kpi_metrics.total_savings > 0
    /\ report.out.kpi_metrics.total_optimized > 0
    /\ (10000 * report.out.kpi_metrics.total_savings)
          % report.out.kpi_metrics.total_forecast # 0

BundleKeys == {"combined_df", "kpi_metrics", "recommendations"}
RowKeys == {"Year", "Forecast_CapEx", "Forecast_OpEx", "Optimized_CapEx",
            "Optimized_OpEx"}
KpiKeys == {"total_savings", "savings_pct", "total_forecast", "total_optimized"}

\* C11: a row whose solver reports failure or returns a non-finite point
\* gets exactly 0.8 * Forecast_CapEx and 0.7 * Forecast_OpEx, and the
\* analysis still yields a bundle of the usual shape: one row per forecast
\* row with the usual columns, the usual metrics, no field that tells a
\* fallback from a converged row.
C11_FallbackIsExactlyTheFloor ==
    report.kind = "done" =>
        /\ DOMAIN report.out = BundleKeys
        /\ DOMAIN report.out.kpi_metrics = KpiKeys
        /\ Len(report.out.combined_df) = Len(pred_df)
        /\ \A i \in ReportRows :
            LET r == report.out.combined_df[i]
            IN  /\ DOMAIN r = RowKeys
                /\ r.Year = pred_df[i].Year
                /\ report.outcomes[i] # "converged" =>
                      /\ 10 * r.Optimized_CapEx = 8 * pred_df[i].Forecast_CapEx
                      /\ 10 * r.Optimized_OpEx = 7 * pred_df[i].Forecast_OpEx

\* one row with a reported failure and one with a non-finite point, both
\* with forecasts whose floor is not the constrained minimum
C11_Witness ==
    /\ report.kind = "done"
    /\ \E i, j \in ReportRows :
        /\ report.outcomes[i] = "failed"
        /\ report.outcomes[j] = "nonfinite"
        /\ \A k \in {i, j} :
            /\ report.out.combined_df[k].Optimized_CapEx
                  # constrained_minimum(pred_df[k].Forecast_CapEx, AlphaMilli,
                                        CapexFloorTenths)
            /\ pred_df[k].Forecast_OpEx # 0

\* the sign of a quotient
NonNegative(q) ==
    /\ ~q.undefined
    /\ \/ q.num = 0
       \/ (q.num > 0 /\ q.den > 0)
       \/ (q.num < 0 /\ q.den < 0)

\* C16: a row whose two forecasts are >= 0 has Optimized_CapEx <=
\* Forecast_CapEx and Optimized_OpEx <= Forecast_OpEx, converged or
\* fallback; when every forecast is >= 0, total_savings and savings_pct are
\* >= 0.
C16_OptimizedAtMostForecast ==
    report.kind = "done" =>
        /\ \A i \in ReportRows :
            LET r == report.out.combined_df[i]
            IN  (r.Forecast_CapEx >= 0 /\ r.Forecast_OpEx >= 0) =>
                    /\ r.Optimized_CapEx <= r.Forecast_CapEx
                    /\ r.Optimized_OpEx <= r.Forecast_OpEx
        /\ (\A i \in 1..Len(pred_df) :
                pred_df[i].Forecast_CapEx >= 0 /\ pred_df[i].Forecast_OpEx >= 0) =>
              /\ report.out.kpi_metrics.total_savings >= 0
              /\ NonNegative(report.out.kpi_metrics.savings_pct)

\* non-negative forecasts, a converged row strictly below its forecast, a
\* fallback row, and savings that are not zero
C16_Witness ==
    /\ report.kind = "done"
    /\ \A i \in 1..Len(pred_df) :
          pred_df[i].Forecast_CapEx >= 0 /\ pred_df[i].Forecast_OpEx >= 0
    /\ \E i, j \in ReportRows :
        /\ report.outcomes[i] = "converged"
        /\ report.out.combined_df[i].Optimized_CapEx
              < report.out.combined_df[i].Forecast_CapEx
        /\ report.out.combined_df[i].Optimized_CapEx
              > constraint_floor(CapexFloorTenths, pred_df[i].Forecast_CapEx)
        /\ report.outcomes[j] # "converged"
    /\ report.out.kpi_metrics.total_savings > 0
    /\ report.out.kpi_metrics.savings_pct.num > 0

(***************************************************************************)
(* auth.py: bcrypt.  A hash is the salt and the digest of the bytes bcrypt *)
(* reads; the digest is taken to be collision free, so it is the bytes     *)
(* themselves.  bcrypt reads at most 72 bytes of a password: releases      *)
(* before 5.0 drop the rest silently, later ones raise ValueError on a     *)
(* longer password.  The repository pins no release, so either may run.    *)
(***************************************************************************)
BCRYPT_MAX_BYTES == 72

\* str.encode('utf-8'): one byte per ASCII character, two for e-acute (the
\* character written "eacute" here)
utf8(c) == IF c = "eacute" THEN <<"0xC3", "0xA9">> ELSE <<c>>

encode_utf8(s) == Concat([i \in 1..Len(s) |-> utf8(s[i])])

\* the bytes of a password that bcrypt hashes
bcrypt_input(bytes) ==
    IF Len(bytes) > BCRYPT_MAX_BYTES THEN SubSeq(bytes, 1, BCRYPT_MAX_BYTES) ELSE bytes

\* bcrypt.hashpw(bytes, salt): the hash, unless this release raises
bcrypt_hashpw(bytes, salt, strict) ==
    IF strict /\ Len(bytes) > BCRYPT_MAX_BYTES
    THEN [raised |-> TRUE, hash |-> [salt |-> salt, digest |-> <<>>]]
    ELSE [raised |-> FALSE, hash |-> [salt |-> salt, digest |-> bcrypt_input(bytes)]]

\* hash_password(password), salt being what bcrypt.gensalt() returned
hash_password(password, salt, strict) ==
    bcrypt_hashpw(encode_utf8(password), salt, strict)

\* verify_password(stored_hash, provided_password): bcrypt.checkpw hashes
\* the provided password with the stored salt and compares
verify_password(stored_hash, provided_password, strict) ==
    LET again == bcrypt_hashpw(encode_utf8(provided_password), stored_hash.salt, strict)
    IN  [raised |-> again.raised,
         ok |-> ~again.raised /\ again.hash = stored_hash]

(***************************************************************************)
(* database.py: the users table, rows in insertion order.                  *)
(***************************************************************************)
\* mutant of add_user: INSERT OR REPLACE, the row of a known username is
\* overwritten
add_user_or_replace(tbl, username, password_hash) ==
    IF \E i \in 1..Len(tbl) : tbl[i].username = username
    THEN [users |-> [i \in 1..Len(tbl) |->
                        IF tbl[i].username = username
                        THEN [tbl[i] EXCEPT !.password_hash = password_hash]
                        ELSE tbl[i]],
          user_id |-> Some(Len(tbl))]
    ELSE [users |-> Append(tbl, [id |-> Len(tbl) + 1, username |-> username,
                                 password_hash |-> password_hash]),
          user_id |-> Some(Len(tbl) + 1)]

\* add_user(username, password_hash): INSERT into a table whose username
\* column is UNIQUE; sqlite3.IntegrityError gives None and no change.  No
\* row is ever deleted, so the AUTOINCREMENT id is the row count plus one.
add_user(tbl, username, password_hash) ==
    IF \E i \in 1..Len(tbl) : tbl[i].username = username
    THEN [users |-> tbl, user_id |-> None]
    ELSE [users |-> Append(tbl, [id |-> Len(tbl) + 1, username |-> username,
                                 password_hash |-> password_hash]),
          user_id |-> Some(Len(tbl) + 1)]

\* mutant of check_user: the WHERE clause is missing
check_user_any_row(tbl, username) ==
    IF tbl = <<>> THEN None ELSE Some(tbl[1].password_hash)

\* check_user(username): the password_hash of the first matching row, or None
check_user(tbl, username) ==
    LET rows == SelectSeq(tbl, LAMBDA r : r.username = username)
    IN  IF rows = <<>> THEN None ELSE Some(rows[1].password_hash)

(***************************************************************************)
(* app.py: the signup checks.                                              *)
(***************************************************************************)
Lowercase == {"a", "b", "c", "d", "e", "f", "g", "h", "i", "j", "k", "l", "m",
              "n", "o", "p", "q", "r", "s", "t", "u", "v", "w", "x", "y", "z"}
Uppercase == {"A", "B", "C", "D", "E", "F", "G", "H", "I", "J", "K", "L", "M",
              "N", "O", "P", "Q", "R", "S", "T", "U", "V", "W", "X", "Y", "Z"}
Digits == {"0", "1", "2", "3", "4", "5", "6", "7", "8", "9"}
\* [!@#$%^&*(),.?":{}|<>]
SpecialChars == {"!", "@", "#", "$", "%", "^", "&", "*", "(", ")", ",", ".", "?",
                 "\"", ":", "{", "}", "|", "<", ">"}
\* [a-zA-Z0-9._%+-]
LocalPartChars == Lowercase \cup Uppercase \cup Digits \cup {".", "_", "%", "+", "-"}

GmailSuffix == <<"@", "g", "m", "a", "i", "l", ".", "c", "o", "m">>

\* str.endswith
endswith(s, suffix) ==
    /\ Len(s) >= Len(suffix)
    /\ SubSeq(s, Len(s) - Len(suffix) + 1, Len(s)) = suffix

\* re.search(r'[class]', s)
search_class(class, s) == \E i \in 1..Len(s) : s[i] \in class

\* is_valid_gmail(email): not empty, ends with @gmail.com, and matches
\* ^[a-zA-Z0-9._%+-]+@gmail\.com$
is_valid_gmail(email) ==
    IF email = <<>> \/ ~endswith(email, GmailSuffix) THEN FALSE
    ELSE LET local == SubSeq(email, 1, Len(email) - Len(GmailSuffix))
         IN  /\ Len(local) >= 1
             /\ \A i \in 1..Len(local) : local[i] \in LocalPartChars

MinPasswordLength == 8

\* mutant of is_strong_password: the special-character rule is missing
is_strong_password_no_special(password) ==
    IF Len(password) < MinPasswordLength
    THEN [ok |-> FALSE, message |-> "Password must be at least 8 characters long."]
    ELSE IF ~search_class(Uppercase, password)
    THEN [ok |-> FALSE, message |-> "Password must contain an uppercase letter."]
    ELSE IF ~search_class(Lowercase, password)
    THEN [ok |-> FALSE, message |-> "Password must contain a lowercase letter."]
    ELSE IF ~search_class(Digits, password)
    THEN [ok |-> FALSE, message |-> "Password must contain a number."]
    ELSE [ok |-> TRUE, message |-> "Password is strong."]

\* is_strong_password(password): the verdict and its message
is_strong_password(password) ==
    IF Len(password) < MinPasswordLength
    THEN [ok |-> FALSE, message |-> "Password must be at least 8 characters long."]
    ELSE IF ~search_class(Uppercase, password)
    THEN [ok |-> FALSE, message |-> "Password must contain an uppercase letter."]
    ELSE IF ~search_class(Lowercase, password)
    THEN [ok |-> FALSE, message |-> "Password must contain a lowercase letter."]
    ELSE IF ~search_class(Digits, password)
    THEN [ok |-> FALSE, message |-> "Password must contain a number."]
    ELSE IF ~search_class(SpecialChars, password)
    THEN [ok |-> FALSE, message |-> "Password must contain a special character."]
    ELSE [ok |-> TRUE, message |-> "Password is strong."]

(***************************************************************************)
(* app.py: the handlers of the login page and the logout callback.         *)
(***************************************************************************)
Handled(op, username, password, add_called, check_called, user_id) ==
    [op |-> op, username |-> username, password |-> password,
     known_before |-> username \in DOMAIN first_signup,
     add_user_called |-> add_called, check_user_called |-> check_called,
     user_id |-> user_id]

\* the "Create Account" button (app.py 142-149); salt is what
\* bcrypt.gensalt() returns if hash_password is reached
CreateAccount(new_username, new_password, salt) ==
    LET strong == is_strong_password(new_password)
        hashed == hash_password(new_password, salt, bcrypt_strict)
        added == add_user(users, new_username, hashed.hash)
        rejected(message) ==
            /\ ui_message' = message
            /\ last' = Handled("signup", new_username, new_password, FALSE, FALSE, None)
            /\ UNCHANGED <<users, first_signup>>
    IN
    /\ ~session.authenticated
    /\ IF new_username = <<>> \/ new_password = <<>>
       THEN rejected("Please fill out all fields.")
       ELSE IF ~is_valid_gmail(new_username)
       THEN rejected("Invalid email. Please use a valid @gmail.com address.")
       ELSE IF ~strong.ok
       THEN rejected(strong.message)
       ELSE IF hashed.raised
       THEN rejected("ValueError")
       ELSE /\ users' = added.users
            /\ ui_message' = IF added.user_id # None
                             THEN "Account created! Please sign in."
                             ELSE "Email already exists."
            /\ last' = Handled("signup", new_username, new_password, TRUE, FALSE,
                               added.user_id)
            /\ first_signup' =
                  IF added.user_id # None /\ new_username \notin DOMAIN first_signup
                  THEN first_signup @@
                       (new_username :> [password |-> new_password, hash |-> hashed.hash])
                  ELSE first_signup
    /\ UNCHANGED <<session, bcrypt_strict, produced, pipeline_vars, files_vars>>

\* mutant of LogIn: a successful login leaves results and error as they are
LogIn_keeping_results(username, password) ==
    LET stored_hash == check_user(users, username)
        verdict == verify_password(CHOOSE h \in stored_hash : TRUE, password,
                                   bcrypt_strict)
    IN
    /\ ~session.authenticated
    /\ last' = Handled("login", username, password, FALSE, TRUE, None)
    /\ IF stored_hash # None /\ verdict.raised
       THEN /\ ui_message' = "ValueError"
            /\ UNCHANGED <<session, produced>>
       ELSE IF stored_hash # None /\ verdict.ok
       THEN /\ session' = [session EXCEPT !.authenticated = TRUE,
                                          !.username = Some(username),
                                          !.run_clicked = FALSE]
            /\ ui_message' = ""
            /\ produced' = {}
       ELSE /\ ui_message' = "Incorrect email or password."
            /\ UNCHANGED <<session, produced>>
    /\ UNCHANGED <<users, first_signup, bcrypt_strict, pipeline_vars, files_vars>>

\* the "Log In" button (app.py 131-136)
LogIn(username, password) ==
    LET stored_hash == check_user(users, username)
        verdict == verify_password(CHOOSE h \in stored_hash : TRUE, password,
                                   bcrypt_strict)
    IN
    /\ ~session.authenticated
    /\ last' = Handled("login", username, password, FALSE, TRUE, None)
    /\ IF stored_hash # None /\ verdict.raised
       THEN /\ ui_message' = "ValueError"
            /\ UNCHANGED <<session, produced>>
       ELSE IF stored_hash # None /\ verdict.ok
       THEN /\ session' = [session EXCEPT !.authenticated = TRUE,
                                          !.username = Some(username),
                                          !.run_clicked = FALSE,
                                          !.results = None,
                                          !.error = None]
            /\ ui_message' = ""
            /\ produced' = {}
       ELSE /\ ui_message' = "Incorrect email or password."
            /\ UNCHANGED <<session, produced>>
    /\ UNCHANGED <<users, first_signup, bcrypt_strict, pipeline_vars, files_vars>>

\* logout(), the on_click callback of the sidebar button (app.py 152-156)
Logout ==
    /\ session.authenticated
    /\ session' = [session EXCEPT !.authenticated = FALSE,
                                  !.username = None,
                                  !.run_clicked = FALSE,
                                  !.active_tab = "chart"]
    /\ ui_message' = ""
    /\ last' = Handled("logout", <<>>, <<>>, FALSE, FALSE, None)
    /\ UNCHANGED <<users, first_signup, bcrypt_strict, produced, pipeline_vars,
                   files_vars>>

(***************************************************************************)
(* app.py: what a script run renders.  Streamlit runs main() again after   *)
(* every handler, so the page is a function of st.session_state.           *)
(***************************************************************************)
\* mutant of show_main_app: the results are looked at before the error
show_main_app_results_first(s) ==
    IF ~s.run_clicked
    THEN [page |-> "form", shows |-> "inputs", content |-> None]
    ELSE IF s.results # None
    THEN [page |-> "results", shows |-> "results", content |-> s.results]
    ELSE IF s.error # None
    THEN [page |-> "results", shows |-> "error", content |-> s.error]
    ELSE [page |-> "results", shows |-> "nothing", content |-> None]

\* show_main_app() (app.py 162-289): the input form, or the results page
\* with the error, else the KPIs, tabs and downloads of the results
show_main_app(s) ==
    IF ~s.run_clicked
    THEN [page |-> "form", shows |-> "inputs", content |-> None]
    ELSE IF s.error # None
    THEN [page |-> "results", shows |-> "error", content |-> s.error]
    ELSE IF s.results # None
    THEN [page |-> "results", shows |-> "results", content |-> s.results]
    ELSE [page |-> "results", shows |-> "nothing", content |-> None]

\* main() (app.py 299-302)
main(s) ==
    IF ~s.authenticated
    THEN [page |-> "login", shows |-> "inputs", content |-> None]
    ELSE show_main_app(s)

\* str(e) of a ValueError of run_analysis: the message, by its template and
\* the values formatted into it
str(e) ==
    [template |-> e.template, names_bank |-> e.names_bank,
     names_found |-> e.names_found]

\* get_bank_list(file_path) (app.py 34-39): the distinct stripped cells of
\* the Banks column; the workbook is taken to have the one sheet, "Final"
get_bank_list(tbl) ==
    IF "Banks" \in tbl.columns
    THEN {strip(tbl.rows[i].Banks) : i \in 1..Len(tbl.rows)}
    ELSE {}

(***************************************************************************)
(* app.py: the handlers of the main view.                                  *)
(***************************************************************************)
\* the "Generate Forecast" button (app.py 177-182); predicted and outcomes
\* are what the forecaster and the solver do if the run gets to them
ClickGenerateForecast(selected_bank, current_year, forecast_horizon, predicted, outcomes) ==
    LET clicked == [session EXCEPT !.run_clicked = TRUE,
                                   !.selected_bank = Some(selected_bank),
                                   !.active_tab = "chart"]
        result == run_analysis(table, selected_bank, forecast_horizon, current_year,
                               OUTPUT_DIR, predicted, outcomes)
    IN
    /\ main(session).page = "form"
    /\ selected_bank # <<>>
    /\ session' = IF result.kind = "ok"
                  THEN [clicked EXCEPT !.results = Some(result)]
                  ELSE [clicked EXCEPT !.error = Some(str(result))]
    /\ run' = [kind |-> "ran",
               bank_name |-> selected_bank,
               current_year |-> current_year,
               forecast_years |-> forecast_horizon,
               result |-> result]
    /\ produced' = produced \cup {result}
    /\ ui_message' = ""
    /\ last' = Handled("generate_forecast", <<>>, <<>>, FALSE, FALSE, None)
    /\ UNCHANGED <<table, pred_df, report, users, first_signup, bcrypt_strict,
                   files_vars>>

\* the "New Analysis" button of the results page (app.py 231-234)
NewAnalysis ==
    /\ main(session).page = "results"
    /\ session' = [session EXCEPT !.run_clicked = FALSE, !.active_tab = "chart"]
    /\ ui_message' = ""
    /\ last' = Handled("new_analysis", <<>>, <<>>, FALSE, FALSE, None)
    /\ UNCHANGED <<users, first_signup, bcrypt_strict, produced, pipeline_vars,
                   files_vars>>

(***************************************************************************)
(* The text the model types into the forms.                                *)
(***************************************************************************)
NumSalts == 2       \* distinct values bcrypt.gensalt() can return

Salts == 1..NumSalts

Repeat(c, n) == [i \in 1..n |-> c]

EmailA == <<"a">> \o GmailSuffix
EmailB == <<"B", ".", "9">> \o GmailSuffix

Usernames ==
    {<<>>, EmailA, EmailB,
     <<"a", "@", "y", "a", "h", "o", "o", ".", "c", "o", "m">>,
     GmailSuffix,
     <<"a", " ", "b">> \o GmailSuffix}

StrongPassword == <<"A", "a", "1", "!", "a", "a", "a", "a">>
StrongPasswordAccent == <<"A", "a", "1", "?", "a", "a", "a", "eacute">>

WeakPasswords ==
    {<<>>,
     <<"A", "a", "1", "!", "a", "a", "a">>,
     <<"a", "a", "1", "!", "a", "a", "a", "a">>,
     <<"A", "A", "1", "!", "A", "A", "A", "A">>,
     <<"A", "a", "b", "!", "a", "a", "a", "a">>,
     <<"A", "a", "1", "a", "a", "a", "a", "a">>}

ShortPasswords == {StrongPassword, StrongPasswordAccent} \cup WeakPasswords

\* strong passwords of exactly 72 and of 73 characters
LongPasswords ==
    {<<"A", "a", "1", "!">> \o Repeat("a", BCRYPT_MAX_BYTES - 4),
     <<"A", "a", "1", "!">> \o Repeat("a", BCRYPT_MAX_BYTES - 3)}

MutationChars == {"b", "eacute"}

\* every password that differs from p in exactly one character
Mutations(p) ==
    {[p EXCEPT ![i] = c] : i \in 1..Len(p), c \in MutationChars} \ {p}

(***************************************************************************)
(* SpecAuth: signup, login and logout in one browser session, over short   *)
(* passwords.                                                              *)
(***************************************************************************)
InitAuth ==
    /\ PipelineIdle
    /\ FilesIdle
    /\ AuthIdle

SignUp ==
    \E u \in Usernames, p \in ShortPasswords, salt \in Salts : CreateAccount(u, p, salt)

SignIn ==
    \E u \in Usernames, p \in ShortPasswords : LogIn(u, p)

NextAuth == SignUp \/ SignIn \/ Logout

SpecAuth == InitAuth /\ [][NextAuth]_vars

(***************************************************************************)
(* SpecCredential: one signup followed by one login attempt, over short    *)
(* and long passwords and their one-character mutations, under either      *)
(* behaviour of bcrypt.                                                    *)
(***************************************************************************)
InitCredential ==
    /\ PipelineIdle
    /\ FilesIdle
    /\ users = <<>>
    /\ session = InitialSession
    /\ ui_message = ""
    /\ last = NoHandler
    /\ first_signup = <<>>
    /\ bcrypt_strict \in BOOLEAN
    /\ produced = {}

CredentialPasswords == {StrongPassword, StrongPasswordAccent} \cup LongPasswords

FirstSignUp ==
    /\ last.op = "none"
    /\ \E p \in CredentialPasswords, salt \in Salts : CreateAccount(EmailA, p, salt)

LoginAttempt ==
    /\ last.op = "signup"
    /\ \E u \in {EmailA, EmailB},
          p \in CredentialPasswords
                \cup UNION {Mutations(q) : q \in CredentialPasswords} :
        LogIn(u, p)

NextCredential == FirstSignUp \/ LoginAttempt

SpecCredential == InitCredential /\ [][NextCredential]_vars

RowsOf(username) == {i \in 1..Len(users) : users[i].username = username}

\* C4: once an email has signed up, every later signup with that email
\* leaves the users table as it was: one row for the email, holding the hash
\* of the first signup; an attempt that reaches add_user gets None and the
\* UI reports "Email already exists.".
C4_DuplicateSignupRejected ==
    /\ Len(users) = Cardinality(DOMAIN first_signup)
    /\ \A u \in DOMAIN first_signup :
          /\ Cardinality(RowsOf(u)) = 1
          /\ \A i \in RowsOf(u) : users[i].password_hash = first_signup[u].hash
    /\ (last.op = "signup" /\ last.known_before) =>
          /\ ui_message # "Account created! Please sign in."
          /\ last.add_user_called =>
                (last.user_id = None /\ ui_message = "Email already exists.")

\* a second signup of a known email with another strong password, refused
\* while another account exists as well
C4_Witness ==
    /\ last.op = "signup"
    /\ last.add_user_called
    /\ last.user_id = None
    /\ ui_message = "Email already exists."
    /\ last.known_before
    /\ first_signup[last.username].password # last.password
    /\ Len(users) = 2

\* the two signup policies, stated without the code's regular expressions
ValidGmailAddress(email) ==
    \E n \in 1..Len(email) :
        /\ email = SubSeq(email, 1, n) \o GmailSuffix
        /\ \A i \in 1..n : email[i] \in LocalPartChars

MeetsStrengthPolicy(password) ==
    /\ Len(password) >= 8
    /\ \E i \in 1..Len(password) : password[i] \in Uppercase
    /\ \E i \in 1..Len(password) : password[i] \in Lowercase
    /\ \E i \in 1..Len(password) : password[i] \in Digits
    /\ \E i \in 1..Len(password) : password[i] \in SpecialChars

\* C8: every row of the users table has a valid @gmail.com username and was
\* stored for a password that met the whole strength policy; add_user is
\* not called with an empty field, an invalid email or a weak password; the
\* login flow goes to check_user without either check.
C8_SignupChecksBeforeAddUser ==
    /\ \A i \in 1..Len(users) :
          /\ ValidGmailAddress(users[i].username)
          /\ users[i].username \in DOMAIN first_signup
          /\ MeetsStrengthPolicy(first_signup[users[i].username].password)
    /\ (last.op = "signup" /\ last.add_user_called) =>
          /\ last.username # <<>>
          /\ last.password # <<>>
          /\ ValidGmailAddress(last.username)
          /\ MeetsStrengthPolicy(last.password)
    /\ last.op = "login" =>
          /\ last.check_user_called
          /\ ui_message \in {"", "Incorrect email or password."}

\* two accounts stored, and a login with an invalid email and a weak
\* password answered by the credential check
C8_Witness ==
    /\ Len(users) = 2
    /\ last.op = "login"
    /\ ~ValidGmailAddress(last.username)
    /\ ~MeetsStrengthPolicy(last.password)
    /\ ui_message = "Incorrect email or password."

DiffersInOneCharacter(a, b) ==
    /\ Len(a) = Len(b)
    /\ Cardinality({i \in 1..Len(a) : a[i] # b[i]}) = 1

\* C5: a login with exactly the password stored at signup succeeds, and a
\* login with a password that differs from it in exactly one character, at
\* any position and for any length the signup policy allows, fails and
\* leaves the session unauthenticated.
C5_OnlyTheExactPasswordLogsIn ==
    (last.op = "login" /\ last.username \in DOMAIN first_signup) =>
        LET p == first_signup[last.username].password
        IN  /\ last.password = p =>
                  (session.authenticated /\ session.username = Some(last.username))
            /\ DiffersInOneCharacter(last.password, p) => ~session.authenticated

(***************************************************************************)
(* SpecFiles: the output stage of run_analysis (backend.py 148-152) in     *)
(* several browser sessions at once.  Streamlit runs each session's script *)
(* in a thread of its own, so the file writes of two runs interleave.  A   *)
(* file's content is tagged with the run that wrote it; a PDF also carries *)
(* the tag of the chart image it embedded.                                 *)
(***************************************************************************)
excel_path_of(bank_name) == output_path(OUTPUT_DIR, bank_name, "_forecast_optimized.xlsx")
chart_path_of(bank_name) == output_path(OUTPUT_DIR, bank_name, "_chart.png")
pdf_path_of(bank_name) == output_path(OUTPUT_DIR, bank_name, "_report.pdf")

Content(r, embedded) ==
    [by |-> r, forecast_years |-> runs[r].forecast_years, chart |-> embedded]

\* open(path, "wb").write(...): the file is created or replaced
WriteFile(path, content) ==
    files' = [p \in DOMAIN files \cup {path} |->
                 IF p = path THEN content ELSE files[p]]

\* "Generate Forecast" in session r: run_analysis has computed full_df
StartRun(r) ==
    /\ runs[r].pc = "idle"
    /\ \E bank_name \in BankNames, forecast_years \in 1..MaxForecastYears :
        runs' = [runs EXCEPT ![r] = [pc |-> "excel", bank_name |-> bank_name,
                                     forecast_years |-> forecast_years,
                                     bundle |-> None]]
    /\ UNCHANGED <<files, pipeline_vars, auth_vars>>

\* full_df.to_excel(excel_path, index=False)
WriteExcel(r) ==
    /\ runs[r].pc = "excel"
    /\ WriteFile(excel_path_of(runs[r].bank_name), Content(r, None))
    /\ runs' = [runs EXCEPT ![r].pc = "chart"]
    /\ UNCHANGED <<pipeline_vars, auth_vars>>

\* plot_and_save_chart: plt.savefig(chart_path)
WriteChart(r) ==
    /\ runs[r].pc = "chart"
    /\ WriteFile(chart_path_of(runs[r].bank_name), Content(r, None))
    /\ runs' = [runs EXCEPT ![r].pc = "pdf"]
    /\ UNCHANGED <<pipeline_vars, auth_vars>>

\* create_pdf_report: the PDF embeds whatever file is at chart_path when
\* doc.build reads it
WritePdf(r) ==
    LET chart_path == chart_path_of(runs[r].bank_name)
        embedded == IF chart_path \in DOMAIN files
                    THEN Some(files[chart_path].by) ELSE None
    IN  /\ runs[r].pc = "pdf"
        /\ WriteFile(pdf_path_of(runs[r].bank_name), Content(r, embedded))
        /\ runs' = [runs EXCEPT ![r].pc = "return"]
        /\ UNCHANGED <<pipeline_vars, auth_vars>>

\* return {..., "excel_path": ..., "pdf_path": ..., "chart_path": ...}
ReturnBundle(r) ==
    /\ runs[r].pc = "return"
    /\ runs' = [runs EXCEPT ![r].pc = "done",
                            ![r].bundle =
                                Some([excel_path |-> excel_path_of(runs[r].bank_name),
                                      chart_path |-> chart_path_of(runs[r].bank_name),
                                      pdf_path |-> pdf_path_of(runs[r].bank_name)])]
    /\ UNCHANGED <<files, pipeline_vars, auth_vars>>

InitFiles ==
    /\ PipelineIdle
    /\ AuthIdle
    /\ FilesIdle

NextFiles ==
    \E r \in RunIds :
        StartRun(r) \/ WriteExcel(r) \/ WriteChart(r) \/ WritePdf(r) \/ ReturnBundle(r)

SpecFiles == InitFiles /\ [][NextFiles]_vars

BundleOf(r) == CHOOSE b \in runs[r].bundle : TRUE

PathsOf(b) == {b.excel_path, b.chart_path, b.pdf_path}

\* C9: the three output paths depend on the output directory and the
\* institution name alone: runs for one institution, whatever their
\* forecast_years, return the same three paths, runs for different
\* institutions return disjoint paths, and nothing keeps one run's files
\* apart from another's, so a file at a returned path was written by some
\* run for that institution, not necessarily the one that returned it.
C9_PathsKeyedByInstitutionOnly ==
    \A r1, r2 \in RunIds :
        (runs[r1].pc = "done" /\ runs[r2].pc = "done") =>
            /\ Cardinality(PathsOf(BundleOf(r1))) = 3
            /\ runs[r1].bank_name = runs[r2].bank_name =>
                  BundleOf(r1) = BundleOf(r2)
            /\ runs[r1].bank_name # runs[r2].bank_name =>
                  PathsOf(BundleOf(r1)) \cap PathsOf(BundleOf(r2)) = {}
            /\ \A p \in PathsOf(BundleOf(r1)) :
                  /\ p \in DOMAIN files
                  /\ runs[files[p].by].bank_name = runs[r1].bank_name

\* a finished run whose returned PDF was written by itself but embeds the
\* chart image of the other run, which forecast a different horizon
C9_Witness ==
    \E r1, r2 \in RunIds :
        /\ r1 # r2
        /\ runs[r1].pc = "done"
        /\ runs[r1].forecast_years # runs[r2].forecast_years
        /\ files[BundleOf(r1).pdf_path].by = r1
        /\ files[BundleOf(r1).pdf_path].chart = Some(r2)
        /\ files[BundleOf(r1).excel_path].by = r2

(***************************************************************************)
(* SpecSession: one browser session from the login page on: signup, login, *)
(* Generate Forecast, New Analysis, the tabs of the results page, logout.  *)
(***************************************************************************)
\* set_active_tab(tab_name), the on_click callback of the three tab buttons,
\* which the results page shows with the results (app.py 158-159, 265-267)
SetActiveTab(tab_name) ==
    /\ main(session).shows = "results"
    /\ session' = [session EXCEPT !.active_tab = tab_name]
    /\ ui_message' = ""
    /\ last' = Handled("set_active_tab", <<>>, <<>>, FALSE, FALSE, None)
    /\ UNCHANGED <<users, first_signup, bcrypt_strict, produced, pipeline_vars,
                   files_vars>>

\* data/final.xlsx: three years of one institution, one year of another
DataFile ==
    [columns |-> {"Banks", "Year", "Capital Expenditure", "Operating Expenditure"},
     rows |-> <<[Banks |-> <<"H", "D", "F", "C", " ">>, Year |-> Num(FirstYear),
                 CapEx |-> Num(10), OpEx |-> Num(20)],
                [Banks |-> <<"H", "D", "F", "C", " ">>, Year |-> Num(FirstYear + 1),
                 CapEx |-> Num(10), OpEx |-> Num(20)],
                [Banks |-> <<"H", "D", "F", "C", " ">>, Year |-> Num(FirstYear + 2),
                 CapEx |-> Num(10), OpEx |-> Num(20)],
                [Banks |-> <<"S", "B", "I">>, Year |-> Num(FirstYear + 2),
                 CapEx |-> Num(10), OpEx |-> Num(20)]>>]

SessionYears == {FirstYear + 2, FirstYear + 3}
SessionPrediction == <<20000, 1000>>
Tabs == {"chart", "data", "recs"}

InitSession ==
    /\ table = DataFile
    /\ run = NoRun
    /\ pred_df = <<>>
    /\ report = NoReport
    /\ AuthIdle
    /\ FilesIdle

SessionSignUp ==
    \E p \in {StrongPassword, <<"A", "a", "1", "!", "a", "a", "a">>}, salt \in Salts :
        CreateAccount(EmailA, p, salt)

SessionSignIn ==
    \E u \in {EmailA, EmailB}, p \in {StrongPassword, StrongPasswordAccent} : LogIn(u, p)

RunForecast ==
    \E selected_bank \in get_bank_list(table), current_year \in SessionYears,
       outcome \in SolverOutcomes :
        ClickGenerateForecast(selected_bank, current_year, MaxForecastYears,
                              [i \in 1..MaxForecastYears |-> SessionPrediction],
                              [i \in 1..MaxForecastYears |-> outcome])

SwitchTab == \E tab_name \in Tabs : SetActiveTab(tab_name)

NextSession ==
    \/ SessionSignUp
    \/ SessionSignIn
    \/ RunForecast
    \/ NewAnalysis
    \/ SwitchTab
    \/ Logout

SpecSession == InitSession /\ [][NextSession]_vars

\* C12: when the run_analysis call of a Generate Forecast click raises, the
\* click leaves the message of that exception in the session's error field,
\* run_clicked True and the user authenticated, and the page rendered next
\* is the results page showing that message and no results.
C12_RunErrorIsCaughtAndShown ==
    (last.op = "generate_forecast" /\ run.result.kind = "error") =>
        /\ session.error = Some(str(run.result))
        /\ session.run_clicked
        /\ session.authenticated
        /\ main(session).page = "results"
        /\ main(session).shows = "error"
        /\ main(session).content = Some(str(run.result))

\* a failed run whose message replaced that of an earlier failed run, while
\* the results of an earlier successful run are still in the session
C12_Witness ==
    /\ last.op = "generate_forecast"
    /\ run.result.kind = "error"
    /\ session.results # None
    /\ \E r \in produced : r.kind = "error" /\ str(r) # str(run.result)
    /\ main(session).shows = "error"

\* C13: on the results page the session shows the outcome of the most
\* recent run_analysis call of this login: its results if it returned, its
\* error message if it raised.
C13_ResultsPageShowsLastRun ==
    main(session).page = "results" =>
        /\ run.kind = "ran"
        /\ run.result.kind = "ok" =>
              /\ main(session).shows = "results"
              /\ main(session).content = Some(run.result)
        /\ run.result.kind = "error" =>
              /\ main(session).shows = "error"
              /\ main(session).content = Some(str(run.result))

\* the row of the users table a login is checked against
MatchingRows(username) == {i \in 1..Len(users) : users[i].username = username}

BecomesAuthenticated == ~session.authenticated /\ session'.authenticated

\* C14: the main view is rendered, and run_analysis called, only in an
\* authenticated session; authenticated turns True only in a Log In whose
\* username has a row in the users table and whose password verifies
\* against the hash of that row; a signup and a refused Log In leave it
\* False; after logout it is False and the login page is rendered.
C14_StepsRespectAuthentication ==
    /\ BecomesAuthenticated =>
          /\ last'.op = "login"
          /\ MatchingRows(last'.username) # {}
          /\ \E i \in MatchingRows(last'.username) :
                verify_password(users[i].password_hash, last'.password,
                                bcrypt_strict).ok
    /\ last'.op = "signup" => (~session.authenticated /\ ~session'.authenticated)
    /\ (last'.op = "login" /\ ui_message' # "") =>
          (~session.authenticated /\ ~session'.authenticated)
    /\ last'.op = "logout" =>
          (~session'.authenticated /\ main(session').page = "login")
    /\ run' # run => (session.authenticated /\ main(session).page = "form")
    /\ main(session').page # "login" => session'.authenticated

C14_MainViewOnlyWhenAuthenticated ==
    /\ [](main(session).page # "login" => session.authenticated)
    /\ [][C14_StepsRespectAuthentication]_vars

\* a session that logged in, ran an analysis and logged out, and in which a
\* login for an unknown email and a signup were refused or left it logged out
C14_Witness ==
    /\ ~session.authenticated
    /\ main(session).page = "login"
    /\ session.results # None
    /\ last.op = "login"
    /\ MatchingRows(last.username) = {}
    /\ Len(users) > 0
    /\ ui_message = "Incorrect email or password."

\* what the page shows was returned or raised by a run of this login
ShownWasProducedSinceLogin ==
    /\ main(session).shows = "results" =>
          \E r \in produced : r.kind = "ok" /\ main(session).content = Some(r)
    /\ main(session).shows = "error" =>
          \E r \in produced : r.kind = "error" /\ main(session).content = Some(str(r))
    /\ main(session).shows # "nothing"

\* C15: a successful login leaves run_clicked False and results and error
\* None, so the input form is rendered; until a run of this login there is
\* no results page, and whatever a results page shows afterwards, results
\* or error, comes from a run made under this login.
C15_NothingCarriesOverBetweenLogins ==
    session.authenticated =>
        /\ (last.op = "login") =>
              /\ ~session.run_clicked
              /\ session.results = None
              /\ session.error = None
              /\ main(session).page = "form"
        /\ produced = {} => main(session).page = "form"
        /\ ShownWasProducedSinceLogin

\* a login right after a logout that followed a failed run: the error of
\* that run is gone and the input form is rendered
C15_Witness ==
    /\ session.authenticated
    /\ last.op = "login"
    /\ run.kind = "ran"
    /\ run.result.kind = "error"
    /\ session.selected_bank # None
    /\ session.error = None
    /\ main(session).page = "form"
====
